---- MODULE Spec2Model ----
(***************************************************************************)
(* Model of src/script.py: the reorder-point application.  One execution   *)
(* of the script (a Streamlit run) is one step.  The state is what a run   *)
(* leaves behind: the joined base table, the purchase ledger              *)
(* st.session_state["compras"], the filter widgets, and the tables the     *)
(* run built (active, resumen) together with how the run ended.            *)
(*                                                                         *)
(* Numbers.  Dates are whole days (integers).  inventario_actual,          *)
(* pronostico_ventas and cantidad are integers.  stock_seguridad and       *)
(* lead_time are means of integer columns (line 45-49) and may be          *)
(* fractional: they are held in HALF units (3 stands for 1.5), and so is   *)
(* punto_reorden.  A missing value (NaN, NaT, None) is the empty sequence  *)
(* NULL; a present value x is <<x>>.                                       *)
(***************************************************************************)
EXTENDS Integers, Sequences, FiniteSets

VARIABLES base, compras, f_bodegas, f_productos, now, active, resumen, boton, error

vars == <<base, compras, f_bodegas, f_productos, now, active, resumen, boton, error>>

(* ---------------------------- bounds ---------------------------------- *)
MaxCompras == 2
MaxCantidad == 2
MaxFecha == 3
MaxNow == 2

(* ------------------------ program constants --------------------------- *)
DiasReorden == 0
DiasCerca == 5
FactorStock == 2

(* --------------------------- nullable values -------------------------- *)
NULL == <<>>

Some(x) == <<x>>

IsNull(v) == v = NULL

Val(v) == v[1]

(* ------------------------------ inputs -------------------------------- *)
Bodegas == {1, 2}

Productos == {1}

Fechas == 1..MaxFecha

(* Order dates offered to st.date_input: the first two forecast days.     *)
FechasCompra == {1, 2}

Cantidades == 1..MaxCantidad

Nows == (MaxFecha - (DiasCerca + 1))..MaxNow

(* Inventory tables after the groupby of line 45: one record per          *)
(* (bodega, producto).  Bodega 1 always has a record; bodega 2 may not.   *)
InvRec(b, p, ia, ss, lt) ==
    [bodega |-> b, producto |-> p, inventario_actual |-> ia,
     stock_seguridad |-> ss, lead_time |-> lt]

InvTables ==
    { {r} \cup extra :
        r \in {InvRec(1, 1, 3, 4, 2), InvRec(1, 1, 5, 4, 3)},
        extra \in { {}, {InvRec(2, 1, 9, 3, 2)} } }

(* Forecast tables after the groupby of line 50: one record per           *)
(* (bodega, producto, fecha).  Bodega 1 has a gap on day 2.               *)
ForRec(b, p, f, pv) ==
    [bodega |-> b, producto |-> p, fecha |-> f, pronostico_ventas |-> pv]

Pronostico(f) == 1 + (f \div 2)

ForTables ==
    { {ForRec(1, 1, f, Pronostico(f)) : f \in Fechas \ {2}}
        \cup {ForRec(2, 1, f, 3) : f \in Fechas} }

(* --------------------- merge and sort (lines 54-56) ------------------- *)
RowLess(r, s) ==
    \/ r.bodega < s.bodega
    \/ r.bodega = s.bodega /\ r.producto < s.producto
    \/ r.bodega = s.bodega /\ r.producto = s.producto /\ r.fecha < s.fecha

RECURSIVE SortValues(_)
SortValues(S) ==
    IF S = {} THEN <<>>
    ELSE LET first == CHOOSE r \in S : \A s \in S \ {r} : RowLess(r, s)
         IN  <<first>> \o SortValues(S \ {first})

(* forc.merge(inv, on=[bodega, producto], how="left"): every forecast row *)
(* is kept; the inventory columns are NaN when no record matches.         *)
MergeLeft(forc, inv) ==
    { LET m == {i \in inv : i.bodega = f.bodega /\ i.producto = f.producto}
      IN  [bodega |-> f.bodega, producto |-> f.producto, fecha |-> f.fecha,
           pronostico_ventas |-> f.pronostico_ventas,
           inventario_actual |->
               IF m = {} THEN NULL ELSE Some((CHOOSE i \in m : TRUE).inventario_actual),
           stock_seguridad |->
               IF m = {} THEN NULL ELSE Some((CHOOSE i \in m : TRUE).stock_seguridad),
           lead_time |->
               IF m = {} THEN NULL ELSE Some((CHOOSE i \in m : TRUE).lead_time)]
      : f \in forc }

Base(forc, inv) == SortValues(MergeLeft(forc, inv))

(* ------------------------ build_active (67-100) ----------------------- *)
SameKey(r, b, p) == r.bodega = b /\ r.producto = p

(* entregas[key][fecha_ent]: total quantity of the purchases of the key   *)
(* whose fecha_entrega is that day (lines 72-77).                         *)
RECURSIVE Entregas(_, _, _, _)
Entregas(compras_list, b, p, fecha_ent) ==
    IF compras_list = <<>> THEN 0
    ELSE LET c == Head(compras_list)
         IN  (IF SameKey(c, b, p) /\ c.fecha_entrega = fecha_ent THEN c.cantidad ELSE 0)
             + Entregas(Tail(compras_list), b, p, fecha_ent)

(* Variant of RecibidosHoy: the quantity is looked up by the day the      *)
(* purchase was ordered instead of the day it is delivered.               *)
RECURSIVE Pedidos(_, _, _, _)
Pedidos(compras_list, b, p, fecha_ped) ==
    IF compras_list = <<>> THEN 0
    ELSE LET c == Head(compras_list)
         IN  (IF SameKey(c, b, p) /\ c.fecha_compra = fecha_ped THEN c.cantidad ELSE 0)
             + Pedidos(Tail(compras_list), b, p, fecha_ped)

RecibidosHoy_PorFechaCompra(compras_list, row) ==
    Pedidos(compras_list, row.bodega, row.producto, row.fecha)

(* recibidos_hoy = deliveries_for_key.get(fecha_actual, 0.0), line 89.    *)
RecibidosHoy(compras_list, row) ==
    Entregas(compras_list, row.bodega, row.producto, row.fecha)

(* Row i opens its group when it is the first row of the sorted table or  *)
(* the row before it has another key (groupby of line 80).                *)
FirstOfGroup(df, i) ==
    i = 1 \/ ~SameKey(df[i - 1], df[i].bodega, df[i].producto)

(* inv_temp at the start of a group, line 82: NaN counts as 0.            *)
InvInicial(row) ==
    IF IsNull(row.inventario_actual) THEN 0 ELSE Val(row.inventario_actual)

(* inv_proj of lines 83-94 for the rows i..Len(df) of the sorted table,    *)
(* inv_prev being inv_temp after row i - 1: inv_temp restarts at the      *)
(* first row of a group, takes the deliveries of the row's day and gives  *)
(* the row's forecast (lines 87-92).                                      *)
RECURSIVE InvProj(_, _, _, _)
InvProj(df, compras_list, i, inv_prev) ==
    IF i > Len(df) THEN <<>>
    ELSE LET start == IF FirstOfGroup(df, i) THEN InvInicial(df[i]) ELSE inv_prev
             inv_temp == start + RecibidosHoy(compras_list, df[i])
                               - df[i].pronostico_ventas
         IN  <<inv_temp>> \o InvProj(df, compras_list, i + 1, inv_temp)

(* punto_reorden, line 97 (half units); NaN when an operand is NaN.       *)
PuntoReorden(row) ==
    IF IsNull(row.stock_seguridad) \/ IsNull(row.lead_time) THEN NULL
    ELSE Some(Val(row.stock_seguridad) + row.pronostico_ventas * Val(row.lead_time))

(* Variant of Alerta: strict comparison, equality does not alert.         *)
Alerta_Estricta(inventario_proyectado, punto_reorden) ==
    ~IsNull(punto_reorden) /\ 2 * inventario_proyectado < Val(punto_reorden)

(* alerta, line 98: a comparison with NaN is False.                       *)
Alerta(inventario_proyectado, punto_reorden) ==
    ~IsNull(punto_reorden) /\ 2 * inventario_proyectado <= Val(punto_reorden)

build_active(base_df, compras_list) ==
    LET inv_proj == InvProj(base_df, compras_list, 1, 0)
    IN  [i \in 1..Len(base_df) |->
            LET row == base_df[i]
                pr  == PuntoReorden(row)
            IN  [bodega |-> row.bodega, producto |-> row.producto, fecha |-> row.fecha,
                 pronostico_ventas |-> row.pronostico_ventas,
                 inventario_actual |-> row.inventario_actual,
                 stock_seguridad |-> row.stock_seguridad,
                 lead_time |-> row.lead_time,
                 inventario_proyectado |-> inv_proj[i],
                 punto_reorden |-> pr,
                 alerta |-> Alerta(inv_proj[i], pr)]]

(* --------------------------- filters (109-118) ------------------------ *)
BodegasDe(df) == {df[i].bodega : i \in 1..Len(df)}

ProductosDe(df) == {df[i].producto : i \in 1..Len(df)}

Filtrar(df, fb, fp) ==
    LET keep(row) == row.bodega \in fb /\ row.producto \in fp
    IN  SelectSeq(df, keep)

(* --------------------------- resumen (165-195) ------------------------ *)
Keys(df) == {<<df[i].bodega, df[i].producto>> : i \in 1..Len(df)}

KeyLess(k, l) == k[1] < l[1] \/ (k[1] = l[1] /\ k[2] < l[2])

RECURSIVE SortKeys(_)
SortKeys(S) ==
    IF S = {} THEN <<>>
    ELSE LET first == CHOOSE k \in S : \A l \in S \ {k} : KeyLess(k, l)
         IN  <<first>> \o SortKeys(S \ {first})

(* The rows of one group, sorted by fecha (lines 166-167).                *)
Grp(df, b, p) == SortValues({df[i] : i \in {j \in 1..Len(df) : SameKey(df[j], b, p)}})

(* mask_alert, line 168: recomputed from the two columns.                 *)
MaskAlert(row) == Alerta(row.inventario_proyectado, row.punto_reorden)

MaskAny(grp) == \E k \in 1..Len(grp) : MaskAlert(grp[k])

(* Variant of FirstIdx: the last position holding True.                   *)
LastIdx(grp) ==
    CHOOSE k \in 1..Len(grp) :
        MaskAlert(grp[k]) /\ \A j \in (k + 1)..Len(grp) : ~MaskAlert(grp[j])

(* mask_alert.idxmax(), line 171: the first position holding True.        *)
FirstIdx(grp) ==
    CHOOSE k \in 1..Len(grp) :
        MaskAlert(grp[k]) /\ \A j \in 1..(k - 1) : ~MaskAlert(grp[j])

Max(a, b) == IF a >= b THEN a ELSE b

(* fecha_reorden, lines 172 and 177.                                      *)
FechaReorden(grp) ==
    IF MaskAny(grp) THEN Some(grp[FirstIdx(grp)].fecha) ELSE NULL

(* cantidad_sugerida, lines 173-175 and 178.  stock_seg is in half units, *)
(* so stock_seg * 2 is Val(stock_seguridad) * FactorStock / 2.            *)
CantidadSugerida(grp) ==
    IF MaskAny(grp)
    THEN LET r == grp[FirstIdx(grp)]
         IN  Max((Val(r.stock_seguridad) * FactorStock) \div 2 - r.inventario_proyectado, 0)
    ELSE 0

(* Variant of Dias: the operands of the subtraction are swapped.          *)
Dias_Invertido(fecha_reorden, n) ==
    IF IsNull(fecha_reorden) THEN NULL ELSE Some(n - Val(fecha_reorden))

(* dias, line 180.                                                        *)
Dias(fecha_reorden, n) ==
    IF IsNull(fecha_reorden) THEN NULL ELSE Some(Val(fecha_reorden) - n)

(* Variant of Estado: a missing day count is taken as zero days.          *)
Estado_NullComoCero(dias) ==
    IF IsNull(dias) \/ Val(dias) <= DiasReorden THEN "Reorden"
    ELSE IF Val(dias) <= DiasCerca THEN "Cerca"
    ELSE "OK"

(* estado, line 181.                                                      *)
Estado(dias) ==
    IF ~IsNull(dias) /\ Val(dias) <= DiasReorden THEN "Reorden"
    ELSE IF ~IsNull(dias) /\ Val(dias) <= DiasCerca THEN "Cerca"
    ELSE "OK"

ResumenRow(df, b, p, n) ==
    LET grp == Grp(df, b, p)
        fecha_reorden == FechaReorden(grp)
        dias == Dias(fecha_reorden, n)
    IN  [Bodega |-> b, Producto |-> p,
         Inventario_Actual |-> grp[1].inventario_actual,
         Stock_Seguridad |-> grp[1].stock_seguridad,
         Lead_Time |-> grp[1].lead_time,
         Fecha_Siguiente_Compra |-> fecha_reorden,
         Cantidad_Sugerida_Pedir |-> CantidadSugerida(grp),
         Dias_Hasta_Punto_Reorden |-> dias,
         Estado |-> Estado(dias)]

Resumen(df, n) ==
    LET ks == SortKeys(Keys(df))
    IN  [k \in 1..Len(ks) |-> ResumenRow(df, ks[k][1], ks[k][2], n)]

(* ------------------------- how a run can end -------------------------- *)
RunOk == "ok"

EmptyResult == "warning: no hay datos con los filtros seleccionados"

LeadTimeNotFound == "error: no se encontro Lead_Time"

ValueError == "ValueError: cannot convert float NaN to integer"

(* Variant of IntTrunc: rounds a fractional value up.                     *)
IntCeil(x2) == (x2 + 1) \div 2

(* int(x) of line 139 on a half-unit value: truncation toward zero.       *)
IntTrunc(x2) == IF x2 >= 0 THEN x2 \div 2 ELSE -((-x2) \div 2)

(* The rest of a run that reached line 165 with the table a.              *)
Finish(a, n) ==
    /\ active' = a
    /\ resumen' = Resumen(active', n)
    /\ error' = RunOk

(* A run stopped by st.stop() or by an exception after line 103: the      *)
(* table of line 103 exists, no summary is built.                         *)
Stop(a, how) ==
    /\ active' = a
    /\ resumen' = <<>>
    /\ error' = how

(* pd.Timestamp.now() of line 180: the clock never runs backwards.  A run  *)
(* reads the day of the previous run or the next one.                     *)
Clock(n) == n <= MaxNow

(* State after the first run with both files loaded: empty ledger (61-62),*)
(* filters at their defaults (112-113), no button pressed.                *)
Init ==
    /\ \E inv \in InvTables, forc \in ForTables : base = Base(forc, inv)
    /\ compras = <<>>
    /\ active = build_active(base, compras)
    /\ f_bodegas = BodegasDe(active)
    /\ f_productos = ProductosDe(active)
    /\ now \in Nows
    /\ resumen = Resumen(active, now)
    /\ boton = NULL
    /\ error = RunOk

(* A run in which the button is not pressed and the filters are as they   *)
(* were (any other widget changed, or the page was reloaded).             *)
Rerun ==
    \E n \in {now, now + 1} :
        /\ Clock(n)
        /\ now' = n
        /\ boton' = NULL
        /\ LET a == build_active(base, compras)
           IN  IF Filtrar(a, f_bodegas, f_productos) = <<>>
               THEN Stop(a, EmptyResult)
               ELSE Finish(a, n)
        /\ UNCHANGED <<base, compras, f_bodegas, f_productos>>

(* A run caused by adding or removing one entry of a multiselect          *)
(* (lines 112-118).                                                       *)
CambiarFiltros ==
    \E n \in {now, now + 1}, fb \in SUBSET BodegasDe(active), fp \in SUBSET ProductosDe(active) :
        /\ Clock(n)
        /\ Cardinality((fb \ f_bodegas) \cup (f_bodegas \ fb))
             + Cardinality((fp \ f_productos) \cup (f_productos \ fp)) = 1
        /\ now' = n
        /\ boton' = NULL
        /\ f_bodegas' = fb
        /\ f_productos' = fp
        /\ LET a == build_active(base, compras)
           IN  IF Filtrar(a, fb, fp) = <<>>
               THEN Stop(a, EmptyResult)
               ELSE Finish(a, n)
        /\ UNCHANGED <<base, compras>>

(* A run in which the button of line 135 is pressed with the widgets of   *)
(* lines 127-133 set to b_sel, p_sel, fecha_compra and cantidad.  The     *)
(* widgets exist only when df_filtered is not empty (line 116-118), and   *)
(* the select boxes offer only what df_filtered holds.                    *)
RegistrarCompra ==
    LET a == build_active(base, compras)
        df_filtered == Filtrar(a, f_bodegas, f_productos)
    IN  /\ Len(compras) < MaxCompras
        /\ df_filtered # <<>>
        /\ \E n \in {now, now + 1},
              b_sel \in BodegasDe(df_filtered),
              fecha_compra \in FechasCompra, cantidad \in Cantidades :
            \E p_sel \in ProductosDe(Filtrar(df_filtered, {b_sel}, Productos)) :
              LET lt_mask == {i \in 1..Len(base) : SameKey(base[i], b_sel, p_sel)}
                  lead_time == base[CHOOSE i \in lt_mask : \A j \in lt_mask : i <= j].lead_time
                  lt == IntTrunc(Val(lead_time))
                  fecha_entrega == fecha_compra + lt
                  compra == [bodega |-> b_sel, producto |-> p_sel,
                             fecha_compra |-> fecha_compra,
                             fecha_entrega |-> fecha_entrega,
                             cantidad |-> cantidad]
              IN  /\ Clock(n)
                  /\ now' = n
                  /\ boton' = Some([bodega |-> b_sel, producto |-> p_sel,
                                  fecha_compra |-> fecha_compra, cantidad |-> cantidad])
                  /\ IF lt_mask = {}
                     THEN compras' = compras /\ Stop(a, LeadTimeNotFound)
                     ELSE IF IsNull(lead_time)
                     THEN compras' = compras /\ Stop(a, ValueError)
                     ELSE /\ compras' = Append(compras, compra)
                          /\ Finish(build_active(base, compras'), n)
                  /\ UNCHANGED <<base, f_bodegas, f_productos>>

Next == Rerun \/ CambiarFiltros \/ RegistrarCompra

Spec == Init /\ [][Next]_vars

(* Sessions in which the operator leaves both multiselects at their       *)
(* defaults (every bodega and producto selected, lines 112-113).          *)
NextFiltrosDefault == Rerun \/ RegistrarCompra

SpecFiltrosDefault == Init /\ [][NextFiltrosDefault]_vars

(* ====================================================================== *)
(*                               Properties                               *)
(* ====================================================================== *)
RowsOf(b, p) == {i \in 1..Len(active) : SameKey(active[i], b, p)}

HasInventory(b, p) ==
    \E i \in 1..Len(base) : SameKey(base[i], b, p) /\ ~IsNull(base[i].lead_time)

RECURSIVE SumCantidad(_)
SumCantidad(S) ==
    IF S = {} THEN 0
    ELSE LET i == CHOOSE j \in S : TRUE
         IN  compras[i].cantidad + SumCantidad(S \ {i})

RECURSIVE SumPronostico(_)
SumPronostico(S) ==
    IF S = {} THEN 0
    ELSE LET i == CHOOSE j \in S : TRUE
         IN  base[i].pronostico_ventas + SumPronostico(S \ {i})

(* All deliveries of the key dated on or before day f.                    *)
DeliveredUpTo(b, p, f) ==
    SumCantidad({k \in 1..Len(compras) :
                    SameKey(compras[k], b, p) /\ compras[k].fecha_entrega <= f})

(* Only the deliveries of the key that fall on a forecast date <= f.      *)
DeliveredOnRowsUpTo(b, p, f) ==
    SumCantidad({k \in 1..Len(compras) :
                    /\ SameKey(compras[k], b, p)
                    /\ compras[k].fecha_entrega <= f
                    /\ \E j \in RowsOf(b, p) : active[j].fecha = compras[k].fecha_entrega})

ForecastUpTo(b, p, f) ==
    SumPronostico({j \in 1..Len(base) : SameKey(base[j], b, p) /\ base[j].fecha <= f})

OnHand(i) ==
    IF IsNull(base[i].inventario_actual) THEN 0 ELSE Val(base[i].inventario_actual)

(* C1 (as claimed): conservation.  In every reachable state, for every    *)
(* projected row i, inventario_proyectado = on-hand quantity + all        *)
(* deliveries of the row's group dated on or before the row's date, also  *)
(* those whose date has no forecast row, - the forecast of the group's    *)
(* rows up to and including i.                                            *)
C1_Conservation ==
    \A i \in 1..Len(active) :
        active[i].inventario_proyectado =
            OnHand(i)
            + DeliveredUpTo(active[i].bodega, active[i].producto, active[i].fecha)
            - ForecastUpTo(active[i].bodega, active[i].producto, active[i].fecha)

Last(seq) == seq[Len(seq)]

(* C2: monotonic ledger.  A step that registers one more purchase for     *)
(* group (w, p) with delivery date d leaves inventario_proyectado of      *)
(* every row of (w, p) dated before d unchanged and does not decrease it  *)
(* on any row of (w, p) dated on or after d.                              *)
C2_Monotonic ==
    [][ Len(compras') = Len(compras) + 1 =>
          LET c == Last(compras')
          IN  \A i \in RowsOf(c.bodega, c.producto) :
                /\ active[i].fecha < c.fecha_entrega =>
                     active'[i].inventario_proyectado = active[i].inventario_proyectado
                /\ active[i].fecha >= c.fecha_entrega =>
                     active'[i].inventario_proyectado >= active[i].inventario_proyectado
      ]_vars

(* A purchase was just registered whose delivery falls on a forecast row  *)
(* of its group, with an earlier row before it, and the projection of the *)
(* delivery row holds the delivered quantity.                             *)
C2_Witness ==
    /\ ~IsNull(boton) /\ error = RunOk /\ compras # <<>>
    /\ LET c == Last(compras)
       IN  \E i, j \in RowsOf(c.bodega, c.producto) :
             /\ active[i].fecha < c.fecha_entrega
             /\ active[j].fecha = c.fecha_entrega
             /\ active[j].inventario_proyectado
                  > OnHand(j) - ForecastUpTo(c.bodega, c.producto, active[j].fecha)

(* The lead time the inventory table holds for a key (half units).        *)
LeadTimeOf(b, p) ==
    base[CHOOSE i \in 1..Len(base) : SameKey(base[i], b, p)].lead_time

(* C3: the ledger is append-only.  Every step keeps the events already in *)
(* the ledger at their positions with all their fields and adds at most   *)
(* one; a successful registration of (warehouse, product, order_date,     *)
(* quantity) adds exactly one event with those fields whose delivery date *)
(* is the day on which order_date + lead_time_days falls, and nothing     *)
(* else adds an event.                                                    *)
C3_AppendOnly ==
    [][ /\ Len(compras') \in {Len(compras), Len(compras) + 1}
        /\ SubSeq(compras', 1, Len(compras)) = compras
        /\ (Len(compras') = Len(compras) + 1) <=> (~IsNull(boton') /\ error' = RunOk)
        /\ (~IsNull(boton') /\ error' = RunOk) =>
             LET c == Last(compras')
                 w == Val(boton')
                 lead == LeadTimeOf(w.bodega, w.producto)
             IN  /\ c.bodega = w.bodega /\ c.producto = w.producto
                 /\ c.fecha_compra = w.fecha_compra /\ c.cantidad = w.cantidad
                 /\ ~IsNull(lead)
                 /\ 2 * c.fecha_entrega <= 2 * c.fecha_compra + Val(lead)
                 /\ 2 * c.fecha_compra + Val(lead) < 2 * c.fecha_entrega + 2
      ]_vars

(* Two purchases are in the ledger, the second just registered for a key  *)
(* whose lead time is fractional.                                         *)
C3_Witness ==
    /\ Len(compras) = 2 /\ ~IsNull(boton) /\ error = RunOk
    /\ LET lead == LeadTimeOf(Last(compras).bodega, Last(compras).producto)
       IN  ~IsNull(lead) /\ Val(lead) % 2 = 1

(* C4 (as claimed): a registration for a (warehouse, product) with no     *)
(* inventory record ends with the missing-lead-time error (the spec's     *)
(* UnknownKeyError, line 141), appends nothing and leaves the ledger and  *)
(* the projection as they were.                                           *)
C4_UnknownKey ==
    [][ (~IsNull(boton') /\ ~HasInventory(Val(boton').bodega, Val(boton').producto)) =>
          /\ error' = LeadTimeNotFound
          /\ compras' = compras
          /\ active' = active
      ]_vars

AlertRows(b, p) == {i \in RowsOf(b, p) : active[i].alerta}

(* The summary row of a key: the rows of resumen with that key.           *)
SummaryOf(b, p) == {k \in 1..Len(resumen) : resumen[k].Bodega = b /\ resumen[k].Producto = p}

(* C5: in every summary a run has built, each (warehouse, product) group  *)
(* has one summary row, and for a group with at least one row below its   *)
(* reorder point, next_reorder_date is the earliest date among those      *)
(* rows and suggested_order_quantity is                                   *)
(* max(2 x safety_stock - projected_inventory at that row, 0), never      *)
(* negative.  (Val(stock_seguridad) is 2 x safety_stock.)                 *)
C5_FirstBreach ==
    resumen # <<>> =>
        \A key \in Keys(active) :
            /\ Cardinality(SummaryOf(key[1], key[2])) = 1
            /\ AlertRows(key[1], key[2]) # {} =>
                 LET sr == resumen[CHOOSE k \in SummaryOf(key[1], key[2]) : TRUE]
                     i  == CHOOSE r \in AlertRows(key[1], key[2]) :
                               \A q \in AlertRows(key[1], key[2]) :
                                   active[r].fecha <= active[q].fecha
                     wanted == Val(active[i].stock_seguridad) - active[i].inventario_proyectado
                 IN  /\ sr.Fecha_Siguiente_Compra = Some(active[i].fecha)
                     /\ sr.Cantidad_Sugerida_Pedir = (IF wanted > 0 THEN wanted ELSE 0)
                     /\ sr.Cantidad_Sugerida_Pedir >= 0

(* A summary in which one group first breaches on a row that is not its   *)
(* first, breaches again later or not, with a positive suggestion, and a  *)
(* purchase is in the ledger.                                             *)
C5_Witness ==
    /\ resumen # <<>> /\ compras # <<>>
    /\ \E k \in 1..Len(resumen) :
         /\ ~IsNull(resumen[k].Fecha_Siguiente_Compra)
         /\ resumen[k].Cantidad_Sugerida_Pedir > 0
         /\ \E i \in RowsOf(resumen[k].Bodega, resumen[k].Producto) :
              active[i].fecha < Val(resumen[k].Fecha_Siguiente_Compra)

(* Two rows of one group are below the reorder point, so the earliest is  *)
(* a choice, and the suggestion of another state is clamped at zero.      *)
C5_WitnessClamp ==
    /\ resumen # <<>>
    /\ \E k \in 1..Len(resumen) :
         /\ ~IsNull(resumen[k].Fecha_Siguiente_Compra)
         /\ resumen[k].Cantidad_Sugerida_Pedir = 0
         /\ \E i \in AlertRows(resumen[k].Bodega, resumen[k].Producto) :
              /\ active[i].fecha = Val(resumen[k].Fecha_Siguiente_Compra)
              /\ Val(active[i].stock_seguridad) < active[i].inventario_proyectado

(* C6: summary consistency.  In every summary a run has built, a group in *)
(* which no row is below its reorder point has next_reorder_date = null,  *)
(* suggested_order_quantity = 0, days_until_reorder = null and status     *)
(* "OK", whatever the current date.                                       *)
C6_NoBreach ==
    resumen # <<>> =>
        \A key \in Keys(active) :
            AlertRows(key[1], key[2]) = {} =>
                \E k \in SummaryOf(key[1], key[2]) :
                    /\ IsNull(resumen[k].Fecha_Siguiente_Compra)
                    /\ resumen[k].Cantidad_Sugerida_Pedir = 0
                    /\ IsNull(resumen[k].Dias_Hasta_Punto_Reorden)
                    /\ resumen[k].Estado = "OK"

(* A group with an inventory record that breached before purchases were   *)
(* registered and no longer has a row below its reorder point.            *)
C6_Witness ==
    /\ resumen # <<>> /\ compras # <<>>
    /\ \E key \in Keys(active) :
         /\ HasInventory(key[1], key[2])
         /\ AlertRows(key[1], key[2]) = {}
         /\ \E i \in RowsOf(key[1], key[2]) :
              Alerta(OnHand(i) - ForecastUpTo(key[1], key[2], active[i].fecha),
                     active[i].punto_reorden)

(* C7: status classification.  In every summary row, days_until_reorder   *)
(* is null when there is no next_reorder_date and next_reorder_date - now *)
(* otherwise; status is "Reorden" exactly when it is not null and <= 0,   *)
(* "Cerca" exactly when it is not null and in 1..5, "OK" otherwise.       *)
C7_Status ==
    \A k \in 1..Len(resumen) :
        LET sr == resumen[k]
            d  == sr.Dias_Hasta_Punto_Reorden
        IN  /\ IsNull(sr.Fecha_Siguiente_Compra) => IsNull(d)
            /\ ~IsNull(sr.Fecha_Siguiente_Compra) =>
                 d = Some(Val(sr.Fecha_Siguiente_Compra) - now)
            /\ sr.Estado \in {"Reorden", "Cerca", "OK"}
            /\ sr.Estado = "Reorden" <=> (~IsNull(d) /\ Val(d) <= 0)
            /\ sr.Estado = "Cerca" <=> (~IsNull(d) /\ Val(d) >= 1 /\ Val(d) <= 5)
            /\ sr.Estado = "OK" <=> (IsNull(d) \/ Val(d) > 5)

(* One summary holds a row whose breach date is in the past ("Reorden",   *)
(* negative day count) and a row a few days ahead ("Cerca").              *)
C7_Witness ==
    /\ \E k \in 1..Len(resumen) :
         /\ ~IsNull(resumen[k].Dias_Hasta_Punto_Reorden)
         /\ Val(resumen[k].Dias_Hasta_Punto_Reorden) < 0
         /\ resumen[k].Estado = "Reorden"
    /\ \E k \in 1..Len(resumen) :
         /\ ~IsNull(resumen[k].Dias_Hasta_Punto_Reorden)
         /\ Val(resumen[k].Dias_Hasta_Punto_Reorden) >= 1
         /\ resumen[k].Estado = "Cerca"

(* Rows at the thresholds: 0 days is "Reorden", 1 and 5 days are "Cerca", *)
(* 6 days is "OK".                                                        *)
C7_WitnessCero ==
    \E k \in 1..Len(resumen) :
        resumen[k].Dias_Hasta_Punto_Reorden = Some(0) /\ resumen[k].Estado = "Reorden"

C7_WitnessUno ==
    \E k \in 1..Len(resumen) :
        resumen[k].Dias_Hasta_Punto_Reorden = Some(1) /\ resumen[k].Estado = "Cerca"

C7_WitnessCerca ==
    \E k \in 1..Len(resumen) :
        resumen[k].Dias_Hasta_Punto_Reorden = Some(5) /\ resumen[k].Estado = "Cerca"

C7_WitnessOK ==
    \E k \in 1..Len(resumen) :
        resumen[k].Dias_Hasta_Punto_Reorden = Some(6) /\ resumen[k].Estado = "OK"

(* reorder_point = safety_stock + forecast_quantity x lead_time_days, in  *)
(* half units, null when the row has no inventory record.                 *)
ReorderFormula(row) ==
    IF IsNull(row.stock_seguridad) \/ IsNull(row.lead_time) THEN NULL
    ELSE Some(Val(row.stock_seguridad) + row.pronostico_ventas * Val(row.lead_time))

(* C8: reorder-point formula.  In every reachable state every projected   *)
(* row has reorder_point = safety_stock + forecast_quantity x             *)
(* lead_time_days and is_below_reorder true exactly when                  *)
(* projected_inventory <= reorder_point (equality counts); and no step,   *)
(* a purchase registration included, changes any row's reorder_point.     *)
C8_ReorderPoint ==
    /\ [](\A i \in 1..Len(active) :
            /\ active[i].punto_reorden = ReorderFormula(base[i])
            /\ active[i].alerta <=>
                 (/\ ~IsNull(active[i].punto_reorden)
                  /\ 2 * active[i].inventario_proyectado <= Val(active[i].punto_reorden)))
    /\ [][ /\ Len(active') = Len(active)
           /\ \A i \in 1..Len(active) :
                active'[i].punto_reorden = active[i].punto_reorden ]_vars

(* Purchases are registered and a row sits exactly on its reorder point,  *)
(* with a fractional lead time in the formula.                            *)
C8_Witness ==
    /\ compras # <<>>
    /\ \E i \in 1..Len(active) :
         /\ ~IsNull(active[i].punto_reorden)
         /\ 2 * active[i].inventario_proyectado = Val(active[i].punto_reorden)
         /\ active[i].alerta
         /\ Val(active[i].lead_time) % 2 = 1

(* C10 (as claimed): forecast rows with no inventory record are rejected  *)
(* before any projection: no projected row and no summary row carries a   *)
(* null on_hand_quantity, safety_stock or lead_time_days.                 *)
C10_Rejected ==
    /\ \A i \in 1..Len(active) :
         /\ ~IsNull(active[i].inventario_actual)
         /\ ~IsNull(active[i].stock_seguridad)
         /\ ~IsNull(active[i].lead_time)
    /\ \A k \in 1..Len(resumen) :
         /\ ~IsNull(resumen[k].Inventario_Actual)
         /\ ~IsNull(resumen[k].Stock_Seguridad)
         /\ ~IsNull(resumen[k].Lead_Time)

====
